---- MODULE Spec2Model ----
\* Model of app.py: the analyze_excel_with_pivot pipeline (schema check, text
\* normalisation, status mapping, date parsing, filters, pivot tables) and the
\* KPI block of the Streamlit page that consumes its result.
\*
\* Texts of the two normalised columns are sequences of one-character strings,
\* so that str.strip, str.lower and str.contains are computed, not assumed.
\* The character U+2013 (en dash) of one mapping key is written "EN_DASH".
EXTENDS Naturals, Integers, Sequences, FiniteSets, TLC

VARIABLES file, start_date, end_date, selected_sources, pc, data, result, error,
          steps, kpis

vars == <<file, start_date, end_date, selected_sources, pc, data, result, error,
          steps, kpis>>

\* ---------------------------------------------------------------- bounds
\* Largest number of rows of an uploaded sheet.
MaxRows == 2
\* Timestamps are 1..MaxTime.
MaxTime == 2

\* ---------------------------------------------------------------- values
\* A blank cell (pandas NaN), also the result of .map on an unknown key.
NaN == "NaN"
\* A timestamp that failed to parse (errors='coerce').
NaT == 0
\* Python None as a filter argument.
None == -1

Times == 1..MaxTime

\* ---------------------------------------------------------------- keys of status_mapping
\* key "finding closed"
K_closed ==
    <<"f","i","n","d","i","n","g"," ","c","l","o","s","e","d">>
\* key "finding discarded"
K_discarded ==
    <<"f","i","n","d","i","n","g"," ","d","i","s","c","a","r","d","e","d">>
\* key "fo documenting security policy exception"
K_fo_exception ==
    <<"f","o"," ","d","o","c","u","m","e","n","t","i","n","g"," ","s","e","c","u","r","i","t","y"," ","p","o","l","i","c","y"," ","e","x","c","e","p","t","i","o","n">>
\* key "fo documenting high-level remediation plan(s)"
K_fo_plan ==
    <<"f","o"," ","d","o","c","u","m","e","n","t","i","n","g"," ","h","i","g","h","-","l","e","v","e","l"," ","r","e","m","e","d","i","a","t","i","o","n"," ","p","l","a","n","(","s",")">>
\* key "fo reviewing finding"
K_fo_reviewing ==
    <<"f","o"," ","r","e","v","i","e","w","i","n","g"," ","f","i","n","d","i","n","g">>
\* key "finding closed (en dash) security policy exception active"
K_closed_exception ==
    <<"f","i","n","d","i","n","g"," ","c","l","o","s","e","d"," ","EN_DASH"," ","s","e","c","u","r","i","t","y"," ","p","o","l","i","c","y"," ","e","x","c","e","p","t","i","o","n"," ","a","c","t","i","v","e">>
\* key "fo analyzing treatment options"
K_fo_analyzing ==
    <<"f","o"," ","a","n","a","l","y","z","i","n","g"," ","t","r","e","a","t","m","e","n","t"," ","o","p","t","i","o","n","s">>
\* key "submitted to finding curator"
K_submitted ==
    <<"s","u","b","m","i","t","t","e","d"," ","t","o"," ","f","i","n","d","i","n","g"," ","c","u","r","a","t","o","r">>

\* ---------------------------------------------------------------- cell texts of the uploaded sheets
\* " Finding Closed " (padded)
T_closed ==
    <<" ","F","i","n","d","i","n","g"," ","C","l","o","s","e","d"," ">>
\* "FINDING DISCARDED"
T_discarded ==
    <<"F","I","N","D","I","N","G"," ","D","I","S","C","A","R","D","E","D">>
\* "Fo Documenting Security Policy Exception"
T_fo_exception ==
    <<"F","o"," ","D","o","c","u","m","e","n","t","i","n","g"," ","S","e","c","u","r","i","t","y"," ","P","o","l","i","c","y"," ","E","x","c","e","p","t","i","o","n">>
\* "FO Documenting High-Level Remediation Plan(s)"
T_fo_plan ==
    <<"F","O"," ","D","o","c","u","m","e","n","t","i","n","g"," ","H","i","g","h","-","L","e","v","e","l"," ","R","e","m","e","d","i","a","t","i","o","n"," ","P","l","a","n","(","s",")">>
\* "FO Reviewing Finding"
T_fo_reviewing ==
    <<"F","O"," ","R","e","v","i","e","w","i","n","g"," ","F","i","n","d","i","n","g">>
\* "Finding Closed (en dash) Security Policy Exception Active" with a trailing newline
T_closed_exception ==
    <<"F","i","n","d","i","n","g"," ","C","l","o","s","e","d"," ","EN_DASH"," ","S","e","c","u","r","i","t","y"," ","P","o","l","i","c","y"," ","E","x","c","e","p","t","i","o","n"," ","A","c","t","i","v","e","\n">>
\* "FO Analyzing Treatment Options" with a leading tab
T_fo_analyzing ==
    <<"\t","F","O"," ","A","n","a","l","y","z","i","n","g"," ","T","r","e","a","t","m","e","n","t"," ","O","p","t","i","o","n","s">>
\* "submitted to finding curator"
T_submitted ==
    <<"s","u","b","m","i","t","t","e","d"," ","t","o"," ","f","i","n","d","i","n","g"," ","c","u","r","a","t","o","r">>
\* "Submitted for Review", no key
T_for_review ==
    <<"S","u","b","m","i","t","t","e","d"," ","f","o","r"," ","R","e","v","i","e","w">>
\* the exception status typed with a hyphen instead of the en dash, no key
T_closed_hyphen ==
    <<"F","i","n","d","i","n","g"," ","C","l","o","s","e","d"," ","-"," ","S","e","c","u","r","i","t","y"," ","P","o","l","i","c","y"," ","E","x","c","e","p","t","i","o","n"," ","A","c","t","i","v","e">>
\* "Finding  Closed" with two inner blanks, no key
T_closed_inner ==
    <<"F","i","n","d","i","n","g"," "," ","C","l","o","s","e","d">>
\* the digits of a numeric cell
T_number ==
    <<"4","2">>
\* " Overdue by 3 days"
T_overdue ==
    <<" ","O","v","e","r","d","u","e"," ","b","y"," ","3"," ","d","a","y","s">>
\* "3 DAYS OVERDUE "
T_overdue_upper ==
    <<"3"," ","D","A","Y","S"," ","O","V","E","R","D","U","E"," ">>
\* "Due in 5 days"
T_due ==
    <<"D","u","e"," ","i","n"," ","5"," ","d","a","y","s">>
\* the pattern of str.contains
T_pat ==
    <<"o","v","e","r","d","u","e">>

\* ---------------------------------------------------------------- text operations
Whitespace == {" ", "\t", "\n"}

\* one character of str.lower: the letters A-Z change, nothing else does
LowerChar(c) ==
    CASE c = "A" -> "a"
      [] c = "B" -> "b"
      [] c = "C" -> "c"
      [] c = "D" -> "d"
      [] c = "E" -> "e"
      [] c = "F" -> "f"
      [] c = "G" -> "g"
      [] c = "H" -> "h"
      [] c = "I" -> "i"
      [] c = "J" -> "j"
      [] c = "K" -> "k"
      [] c = "L" -> "l"
      [] c = "M" -> "m"
      [] c = "N" -> "n"
      [] c = "O" -> "o"
      [] c = "P" -> "p"
      [] c = "Q" -> "q"
      [] c = "R" -> "r"
      [] c = "S" -> "s"
      [] c = "T" -> "t"
      [] c = "U" -> "u"
      [] c = "V" -> "v"
      [] c = "W" -> "w"
      [] c = "X" -> "x"
      [] c = "Y" -> "y"
      [] c = "Z" -> "z"
      [] OTHER -> c

\* str.lower
Lower(s) == [i \in 1..Len(s) |-> LowerChar(s[i])]

RECURSIVE LStrip(_)
LStrip(s) == IF s # <<>> /\ Head(s) \in Whitespace THEN LStrip(Tail(s)) ELSE s

RECURSIVE RStrip(_)
RStrip(s) ==
    IF s # <<>> /\ s[Len(s)] \in Whitespace THEN RStrip(SubSeq(s, 1, Len(s) - 1)) ELSE s

\* str.strip: drops leading and trailing whitespace only
Strip(s) == RStrip(LStrip(s))

\* str.contains with a plain pattern: substring search
Contains(s, pat) ==
    \E i \in 1..(Len(s) + 1 - Len(pat)) : SubSeq(s, i, i + Len(pat) - 1) = pat

\* ---------------------------------------------------------------- cells of the two text columns
\* A cell of "Finding Status" or "Finding Due/Overdue": a string, a number or blank.
StrCell(t) == [kind |-> "str", v |-> t]
NumCell == [kind |-> "num", v |-> T_number]
NaNCell == [kind |-> "nan", v |-> <<>>]

\* variant: the element is lower-cased but not stripped
StrStripLower_nostrip(c) == IF c.kind = "str" THEN [kind |-> "str", v |-> Lower(c.v)] ELSE NaNCell

\* Series.str.strip().str.lower() on one element: a non-string element becomes NaN
StrStripLower(c) == IF c.kind = "str" THEN StrCell(Lower(Strip(c.v))) ELSE NaNCell

\* The .str accessor exists on an object column only: read_excel gives a column
\* with no string cell a numeric dtype, and .str then raises AttributeError.
\* A sheet with no rows has object columns.
StatusHasStr(df) == Len(df) = 0 \/ \E i \in DOMAIN df : df[i].status.kind = "str"
DueHasStr(df) == Len(df) = 0 \/ \E i \in DOMAIN df : df[i].due.kind = "str"

\* Series.str.contains("overdue", na=False) on one element
DueContainsOverdue(r) == r.due.kind = "str" /\ Contains(r.due.v, T_pat)

\* ---------------------------------------------------------------- schema
required_columns ==
    {"Finding ID", "Finding Name", "Finding Status", "First Published",
     "Finding Owner", "Finding Source", "Finding Criticality",
     "Finding Curator Responsible", "Applications", "Finding Due/Overdue",
     "CVSS v3.0 Criticality", "Finding Closure Date", "Business Area"}

\* variant: the last name is left out of the list
missing_columns_short(f) == (required_columns \ {"Business Area"}) \ f.columns

missing_columns(f) == required_columns \ f.columns

\* ---------------------------------------------------------------- status mapping
status_mapping ==
    (K_closed :> "Finding Closed") @@
    (K_discarded :> "Finding Closed") @@
    (K_fo_exception :> "Finding Open") @@
    (K_fo_plan :> "Finding Open") @@
    (K_fo_reviewing :> "Finding Open") @@
    (K_closed_exception :> "Finding Closed") @@
    (K_fo_analyzing :> "Finding Open") @@
    (K_submitted :> "Finding Open")

\* Series.map(dict) on one element: NaN for anything that is no key
MapStatus(c) ==
    IF c.kind = "str" /\ c.v \in DOMAIN status_mapping THEN status_mapping[c.v] ELSE NaN

\* ---------------------------------------------------------------- data frames
\* A row of the sheet. idx is the DataFrame index label, which filtering keeps;
\* mapped is the "Mapped Status" column, NaN until the mapping step fills it.
\* published is the raw cell: fmt "dmy" is a text in the expected
\* "%d/%m/%Y %H:%M" format denoting timestamp t, any other fmt does not parse.
Row(i, id, status, due, source, crit, app, ba, published) ==
    [idx |-> i, id |-> id, status |-> status, due |-> due, source |-> source,
     crit |-> crit, app |-> app, ba |-> ba, published |-> published,
     mapped |-> NaN]

\* rows of df that satisfy Keep, in order (boolean-mask indexing)
Mask(df, Keep(_)) == SelectSeq(df, Keep)

\* data["Finding Status"] = ...str.strip().str.lower()
CleanStatus(df) == [i \in DOMAIN df |-> [df[i] EXCEPT !.status = StrStripLower(@)]]
\* variant: the due text is stripped but keeps its letter case
CleanDue_nolower(df) ==
    [i \in DOMAIN df |->
        [df[i] EXCEPT !.due = IF @.kind = "str" THEN StrCell(Strip(@.v)) ELSE NaNCell]]

\* data["Finding Due/Overdue"] = ...str.strip().str.lower()
CleanDue(df) == [i \in DOMAIN df |-> [df[i] EXCEPT !.due = StrStripLower(@)]]

\* data["Mapped Status"] = data["Finding Status"].map(status_mapping)
AddMappedStatus(df) == [i \in DOMAIN df |-> [df[i] EXCEPT !.mapped = MapStatus(df[i].status)]]
\* variant: rows without a mapped status stay
DropUnmapped_keep(df) == df

\* data = data[data["Mapped Status"].notna()]
DropUnmapped(df) == Mask(df, LAMBDA r : r.mapped # NaN)

\* pd.to_datetime(..., format="%d/%m/%Y %H:%M", errors='coerce') on one cell
ParsePublished(p) == IF p.fmt = "dmy" THEN p.t ELSE NaT
ParseDates(df) ==
    [i \in DOMAIN df |-> [df[i] EXCEPT !.published = [fmt |-> "ts", t |-> ParsePublished(@)]]]

\* variant: the end of the range is exclusive
InDateRange_exclusive(r, s, e) == r.published.t # NaT /\ r.published.t >= s /\ r.published.t < e

\* (data["First Published"] >= start_date) & (data["First Published"] <= end_date);
\* a comparison with NaT is False
InDateRange(r, s, e) == r.published.t # NaT /\ r.published.t >= s /\ r.published.t <= e

\* variant: one bound alone filters too
DateFilter_onesided(df, s, e) ==
    IF s # None \/ e # None
    THEN Mask(df, LAMBDA r : r.published.t # NaT /\ (s = None \/ r.published.t >= s)
                                /\ (e = None \/ r.published.t <= e))
    ELSE df

DateFilter(df, s, e) ==
    IF s # None /\ e # None THEN Mask(df, LAMBDA r : InDateRange(r, s, e)) ELSE df

\* data[data["Finding Source"].isin(selected_sources)]
SourceFilter(df, sel) ==
    IF sel # {} THEN Mask(df, LAMBDA r : r.source \in sel) ELSE df

\* ---------------------------------------------------------------- aggregations
Rows(df, Keep(_)) == {i \in DOMAIN df : Keep(df[i])}

\* len(data[mask])
Count(df, Keep(_)) == Cardinality(Rows(df, Keep))

\* groupby("Business Area")["Applications"].nunique(): groups with a NaN key are
\* dropped, NaN applications are not counted
nunique_by_BA(df) ==
    LET bas == {df[i].ba : i \in Rows(df, LAMBDA r : r.ba # NaN)}
    IN  [b \in bas |->
            Cardinality({df[i].app : i \in Rows(df, LAMBDA r : r.ba = b /\ r.app # NaN)})]

\* variant: aggfunc counts distinct Finding IDs
pivot_table_nunique(df) ==
    LET kept == Rows(df, LAMBDA r : r.ba # NaN /\ r.crit # NaN)
        ix == {df[i].ba : i \in kept}
        cs == {df[i].crit : i \in kept}
    IN  [index |-> ix, columns |-> cs,
         values |-> [p \in ix \X cs |->
            Cardinality({df[i].id : i \in
                {j \in kept : df[j].ba = p[1] /\ df[j].crit = p[2] /\ df[j].id # NaN}})]]

\* variant: combinations no row has are left out instead of filled
pivot_table_nofill(df) ==
    LET kept == Rows(df, LAMBDA r : r.ba # NaN /\ r.crit # NaN)
        ix == {df[i].ba : i \in kept}
        cs == {df[i].crit : i \in kept}
    IN  [index |-> ix, columns |-> cs,
         values |-> [p \in {<<df[i].ba, df[i].crit>> : i \in kept} |->
            Cardinality({i \in kept : df[i].ba = p[1] /\ df[i].crit = p[2] /\ df[i].id # NaN})]]

\* variant: values="Applications", so count counts the non-null applications
pivot_table_apps(df) ==
    LET kept == Rows(df, LAMBDA r : r.ba # NaN /\ r.crit # NaN)
        ix == {df[i].ba : i \in kept}
        cs == {df[i].crit : i \in kept}
    IN  [index |-> ix, columns |-> cs,
         values |-> [p \in ix \X cs |->
            Cardinality({i \in kept : df[i].ba = p[1] /\ df[i].crit = p[2] /\ df[i].app # NaN})]]

\* pivot_table(index="Business Area", columns="Finding Criticality",
\*             values="Finding ID", aggfunc="count", fill_value=0):
\* rows with a NaN key are dropped by the grouping, count counts the non-null
\* Finding IDs of a group, and combinations no row has are filled with 0
pivot_table(df) ==
    LET kept == Rows(df, LAMBDA r : r.ba # NaN /\ r.crit # NaN)
        ix == {df[i].ba : i \in kept}
        cs == {df[i].crit : i \in kept}
    IN  [index |-> ix, columns |-> cs,
         values |-> [p \in ix \X cs |->
            Cardinality({i \in kept : df[i].ba = p[1] /\ df[i].crit = p[2] /\ df[i].id # NaN})]]

IsClosed(r) == r.mapped = "Finding Closed"
IsOpen(r) == r.mapped = "Finding Open"
IsOverdue(r) == IsOpen(r) /\ DueContainsOverdue(r)
IsHigh(r) == r.crit = "High"

\* ---------------------------------------------------------------- result of the pipeline
Pending == [tag |-> "pending"]
NoneResult == [tag |-> "None"]

\* the tuple returned on success
Views(df) ==
    [tag |-> "tuple",
     data |-> df,
     total_vulnerable_apps_by_BA |-> nunique_by_BA(df),
     high_vuln_apps_by_BA |-> nunique_by_BA(Mask(df, IsHigh)),
     closed_findings |-> pivot_table(Mask(df, IsClosed)),
     open_findings |-> pivot_table(Mask(df, IsOpen)),
     overdue_findings |-> pivot_table(Mask(df, IsOverdue)),
     criticality_by_area |-> pivot_table(df)]

\* the KPI block of the page
KPIs(df) ==
    [total_findings |-> Len(df),
     open_findings_count |-> Count(df, IsOpen),
     closed_findings_count |-> Count(df, IsClosed),
     overdue_findings_count |-> Count(df, IsOverdue),
     high_risk_findings |-> Count(df, IsHigh),
     affected_apps |-> Cardinality({df[i].app : i \in Rows(df, LAMBDA r : r.app # NaN)})]

NoKPIs == [total_findings |-> None]

\* the table after the steps of lines 33-62
Transformed(rows, s, e, sel) ==
    SourceFilter(
        DateFilter(ParseDates(DropUnmapped(AddMappedStatus(CleanDue(CleanStatus(rows))))), s, e),
        sel)

\* analyze_excel_with_pivot as a function of its arguments
analyze_excel_with_pivot(f, s, e, sel) ==
    IF ~f.readable THEN NoneResult
    ELSE IF missing_columns(f) # {} THEN NoneResult
    ELSE IF ~StatusHasStr(f.rows) \/ ~DueHasStr(f.rows) THEN NoneResult
    ELSE Views(Transformed(f.rows, s, e, sel))

\* ---------------------------------------------------------------- uploaded sheets
Sources == {"WAPT", "EASM"}

DefaultRow ==
    Row(0, "F", StrCell(T_fo_reviewing), StrCell(T_overdue), "WAPT", "High", "a1", "Fin",
        [fmt |-> "dmy", t |-> 1])

\* the sheets' rows vary in the columns one family is about
StatusCells ==
    {StrCell(t) : t \in {T_closed, T_discarded, T_fo_exception, T_fo_plan, T_fo_reviewing,
                         T_closed_exception, T_fo_analyzing, T_submitted,
                         T_for_review, T_closed_hyphen, T_closed_inner}}
    \cup {NumCell, NaNCell}

StatusRows == {[DefaultRow EXCEPT !.status = c] : c \in StatusCells}

\* (business area, criticality) of a row: a shared area, a shared criticality,
\* a pair apart from both, and a blank in either key
KeyPairs ==
    {<<"Fin", "High">>, <<"Fin", "Medium">>, <<"IT", "Medium">>, <<NaN, "High">>, <<"Fin", NaN>>}

KeyRows ==
    {[DefaultRow EXCEPT !.status = StrCell(st), !.ba = k[1], !.crit = k[2]] :
        st \in {T_closed, T_fo_reviewing}, k \in KeyPairs}
    \cup {[DefaultRow EXCEPT !.status = StrCell(st), !.id = NaN] :
            st \in {T_closed, T_fo_reviewing}}

DueRows ==
    {[DefaultRow EXCEPT !.status = StrCell(st), !.due = d] :
        st \in {T_closed, T_fo_reviewing},
        d \in {StrCell(T_overdue), StrCell(T_overdue_upper), StrCell(T_due), NaNCell}}
    \cup {[DefaultRow EXCEPT !.status = StrCell(st), !.ba = NaN] :
            st \in {T_closed, T_fo_reviewing}}

AppRows ==
    {[DefaultRow EXCEPT !.app = a, !.ba = k[1], !.crit = k[2]] :
        a \in {"a1", "a2", NaN},
        k \in {<<"Fin", "High">>, <<"IT", "High">>, <<"Fin", NaN>>, <<NaN, "Medium">>}}

FilterRows ==
    {[DefaultRow EXCEPT !.published = p] :
        p \in {[fmt |-> "dmy", t |-> t] : t \in Times} \cup {[fmt |-> "iso", t |-> 1]}}
    \cup {[DefaultRow EXCEPT !.source = s] : s \in {"EASM", NaN}}
    \cup {[DefaultRow EXCEPT !.status = StrCell(T_for_review), !.source = NaN,
                             !.published = [fmt |-> "iso", t |-> 1]]}

\* read_excel numbers the rows
Indexed(rows) == [i \in DOMAIN rows |-> [rows[i] EXCEPT !.idx = i]]

Sheets(S) == UNION {{Indexed(rows) : rows \in [1..n -> S]} : n \in 0..MaxRows}

Upload(cols, rows) == [readable |-> TRUE, columns |-> cols, rows |-> rows]

\* a file read_excel cannot read
Unreadable == [readable |-> FALSE, columns |-> {}, rows |-> <<>>]

FilterArgs == {None} \cup Times

\* ---------------------------------------------------------------- the run
InitRun ==
    /\ pc = "start"
    /\ data = <<>>
    /\ result = Pending
    /\ error = "none"
    /\ steps = <<>>
    /\ kpis = NoKPIs

NoFilter ==
    /\ start_date = None
    /\ end_date = None
    /\ selected_sources = {}

\* sheets that differ in the status column, under some filters
InitStatus ==
    /\ file \in {Upload(required_columns, rows) : rows \in Sheets(StatusRows)}
    /\ \/ NoFilter
       \/ start_date = 1 /\ end_date = 1 /\ selected_sources = {"WAPT"}
       \/ start_date = None /\ end_date = None /\ selected_sources = {"EASM"}

\* sheets that differ in the group keys, the due text and the applications
InitViews ==
    /\ file \in {Upload(required_columns, rows) :
                    rows \in Sheets(KeyRows) \cup Sheets(DueRows) \cup Sheets(AppRows)}
    /\ NoFilter

\* sheets that differ in the published date and the source, under every filter
InitFilter ==
    /\ file \in {Upload(required_columns, rows) : rows \in Sheets(FilterRows)}
    /\ start_date \in FilterArgs
    /\ end_date \in FilterArgs
    /\ selected_sources \in {{}, {"WAPT"}, Sources}

\* files that cannot be read and sheets that lack columns
InitBroken ==
    /\ file \in {Unreadable} \cup
                {Upload(cols, Indexed(<<DefaultRow>>)) :
                    cols \in (SUBSET required_columns) \ {required_columns}} \cup
                {Upload((required_columns \ {c}) \cup {"Comment"}, <<>>) :
                    c \in required_columns}
    /\ NoFilter

Init ==
    /\ InitRun
    /\ InitStatus \/ InitViews \/ InitFilter \/ InitBroken

Args == <<file, start_date, end_date, selected_sources>>

\* line 19: data = pd.read_excel(file)
ReadExcel ==
    /\ pc = "start"
    /\ IF file.readable
       THEN data' = file.rows /\ pc' = "validate"
       ELSE data' = data /\ pc' = "except"
    /\ UNCHANGED <<Args, result, error, steps, kpis>>

\* lines 21-30: the schema check
ValidateSchema ==
    /\ pc = "validate"
    /\ IF missing_columns(file) # {}
       THEN error' = "missing_columns" /\ result' = NoneResult /\ pc' = "returned"
       ELSE error' = error /\ result' = result /\ pc' = "clean"
    /\ UNCHANGED <<Args, data, steps, kpis>>

\* lines 33-34: the status column is normalised first; a raise on the second
\* line leaves the first assignment done
CleanData ==
    /\ pc = "clean"
    /\ IF ~StatusHasStr(data)
       THEN data' = data /\ steps' = steps /\ pc' = "except"
       ELSE IF ~DueHasStr(data)
       THEN data' = CleanStatus(data) /\ steps' = Append(steps, "clean") /\ pc' = "except"
       ELSE data' = CleanDue(CleanStatus(data)) /\ steps' = Append(steps, "clean")
            /\ pc' = "map"
    /\ UNCHANGED <<Args, result, error, kpis>>

\* lines 37-49
StatusMapping ==
    /\ pc = "map"
    /\ data' = DropUnmapped(AddMappedStatus(data))
    /\ steps' = Append(steps, "map")
    /\ pc' = "dates"
    /\ UNCHANGED <<Args, result, error, kpis>>

\* lines 52-53
EnsureDates ==
    /\ pc = "dates"
    /\ data' = ParseDates(data)
    /\ steps' = Append(steps, "dates")
    /\ pc' = "filters"
    /\ UNCHANGED <<Args, result, error, kpis>>

\* lines 56-62
ApplyFilters ==
    /\ pc = "filters"
    /\ data' = SourceFilter(DateFilter(data, start_date, end_date), selected_sources)
    /\ steps' = Append(steps, "filters")
    /\ pc' = "pivots"
    /\ UNCHANGED <<Args, result, error, kpis>>

\* lines 65-84
CreatePivotTables ==
    /\ pc = "pivots"
    /\ result' = Views(data)
    /\ steps' = Append(steps, "pivots")
    /\ pc' = "returned"
    /\ UNCHANGED <<Args, data, error, kpis>>

\* variant: the handler hands back what was computed so far
HandleException_partial ==
    /\ pc = "except"
    /\ error' = "exception"
    /\ result' = Views(data)
    /\ pc' = "returned"
    /\ UNCHANGED <<Args, data, steps, kpis>>

\* lines 85-87
HandleException ==
    /\ pc = "except"
    /\ error' = "exception"
    /\ result' = NoneResult
    /\ pc' = "returned"
    /\ UNCHANGED <<Args, data, steps, kpis>>

\* lines 105-115: the page computes the KPIs of a result
CalculateKPIs ==
    /\ pc = "returned"
    /\ result.tag = "tuple"
    /\ kpis' = KPIs(result.data)
    /\ pc' = "displayed"
    /\ UNCHANGED <<Args, data, result, error, steps>>

Next ==
    \/ ReadExcel
    \/ ValidateSchema
    \/ CleanData
    \/ StatusMapping
    \/ EnsureDates
    \/ ApplyFilters
    \/ CreatePivotTables
    \/ HandleException
    \/ CalculateKPIs

Spec == Init /\ [][Next]_vars

\* ---------------------------------------------------------------- vocabulary of the properties
OpenKeys == {K_fo_exception, K_fo_plan, K_fo_reviewing, K_fo_analyzing, K_submitted}
ClosedKeys == {K_closed, K_discarded, K_closed_exception}

\* the trimmed, lower-cased status text of a sheet row is one of the eight keys
KnownStatus(r) == r.status.kind = "str" /\ Lower(Strip(r.status.v)) \in OpenKeys \cup ClosedKeys

Succeeded == pc \in {"returned", "displayed"} /\ result.tag = "tuple"
Displayed == pc = "displayed"

\* index labels of the rows of a frame
Labels(df) == {df[i].idx : i \in DOMAIN df}

RECURSIVE SumOver(_, _)
SumOver(f, S) ==
    IF S = {} THEN 0
    ELSE LET x == CHOOSE y \in S : TRUE IN f[x] + SumOver(f, S \ {x})

\* sum of all cells of a pivot
PivotSum(p) == SumOver(p.values, DOMAIN p.values)

\* a cell of a pivot, 0 for a pair the pivot does not have
Cell(p, b, c) == IF <<b, c>> \in DOMAIN p.values THEN p.values[<<b, c>>] ELSE 0

HasKeys(r) == r.ba # NaN /\ r.crit # NaN /\ r.id # NaN

\* ---------------------------------------------------------------- C1
\* C1: a sheet that lacks a required column is answered with the
\* missing-columns error and None, and no step has touched the table by then:
\* no normalisation, mapping, filter or aggregation ever runs on it.
C1_MissingColumns ==
    (file.readable /\ ~(required_columns \subseteq file.columns)) =>
        /\ steps = <<>>
        /\ data \in {<<>>, file.rows}
        /\ pc \in {"start", "validate", "returned"}
        /\ kpis = NoKPIs
        /\ pc = "returned" => (error = "missing_columns" /\ result = NoneResult)
        /\ pc # "returned" => (error = "none" /\ result = Pending)

C1_Witness ==
    /\ pc = "returned"
    /\ error = "missing_columns"
    /\ "Business Area" \notin file.columns
    /\ "Finding ID" \in file.columns
    /\ Len(file.rows) > 0

\* ---------------------------------------------------------------- C9
\* C9: a run ends with the complete result or with a reported failure and
\* None. A raise after the schema check (a text column without any string
\* cell) is reported and None is returned, whatever was already computed.
C9_AllOrNothing ==
    /\ pc \in {"returned", "displayed"} =>
        \/ /\ result = NoneResult
           /\ error # "none"
           /\ kpis = NoKPIs
        \/ /\ result.tag = "tuple"
           /\ error = "none"
           /\ steps = <<"clean", "map", "dates", "filters", "pivots">>
           /\ result.data = data
           /\ result.criticality_by_area = pivot_table(data)
    /\ pc \notin {"returned", "displayed"} => result = Pending
    /\ (/\ pc \in {"returned", "displayed"}
        /\ file.readable
        /\ required_columns \subseteq file.columns
        /\ Len(file.rows) > 0
        /\ \/ \A i \in DOMAIN file.rows : file.rows[i].status.kind # "str"
           \/ \A i \in DOMAIN file.rows : file.rows[i].due.kind # "str")
       => (result = NoneResult /\ error = "exception")

\* the due column raises after the status column was already normalised
C9_Witness ==
    /\ pc = "returned"
    /\ error = "exception"
    /\ result = NoneResult
    /\ steps = <<"clean">>
    /\ data # file.rows

\* ---------------------------------------------------------------- C10
\* C10: Open and Closed partition the filtered records: every cell of the
\* Severity Distribution pivot is the Open cell plus the Closed cell (0 for a
\* pair a pivot lacks), and total = open + closed.
C10_Partition ==
    Displayed =>
        /\ kpis.total_findings = kpis.open_findings_count + kpis.closed_findings_count
        /\ \A b \in {"Fin", "IT", NaN}, c \in {"High", "Medium", NaN} :
              Cell(result.criticality_by_area, b, c) =
                  Cell(result.open_findings, b, c) + Cell(result.closed_findings, b, c)
        /\ result.criticality_by_area.index =
              result.open_findings.index \cup result.closed_findings.index
        /\ result.criticality_by_area.columns =
              result.open_findings.columns \cup result.closed_findings.columns

C10_Witness ==
    /\ Displayed
    /\ Cell(result.open_findings, "Fin", "High") = 1
    /\ Cell(result.closed_findings, "Fin", "High") = 1
    /\ Cell(result.criticality_by_area, "Fin", "High") = 2
    /\ kpis.total_findings = 2

\* ---------------------------------------------------------------- C3
\* C3 as stated: on every successful run the cells of the Open pivot and of
\* the Closed pivot add up to the total-findings KPI.
C3_Original ==
    Displayed =>
        PivotSum(result.open_findings) + PivotSum(result.closed_findings) = kpis.total_findings

\* C3 amended: the two sums add up to the total-findings KPI when every
\* filtered record has a business area, a criticality and a Finding ID; in
\* general they add up to the number of filtered records that have all three.
C3_SumOfOpenAndClosed ==
    Displayed =>
        /\ PivotSum(result.open_findings) + PivotSum(result.closed_findings) =
              Cardinality({i \in DOMAIN result.data : HasKeys(result.data[i])})
        /\ (\A i \in DOMAIN result.data : HasKeys(result.data[i])) =>
              PivotSum(result.open_findings) + PivotSum(result.closed_findings) =
                  kpis.total_findings

\* two records of one group, one Open and one Closed, both counted
C3_Witness ==
    /\ Displayed
    /\ \A i \in DOMAIN result.data : HasKeys(result.data[i])
    /\ kpis.total_findings = 2
    /\ PivotSum(result.open_findings) = 1
    /\ PivotSum(result.closed_findings) = 1
    /\ result.data[1].ba = result.data[2].ba
    /\ result.data[1].crit = result.data[2].crit

\* ---------------------------------------------------------------- C5
\* the records a pivot is computed from
PivotRecords(name) ==
    CASE name = "closed_findings" -> Rows(result.data, IsClosed)
      [] name = "open_findings" -> Rows(result.data, IsOpen)
      [] name = "overdue_findings" -> Rows(result.data, IsOverdue)
      [] name = "criticality_by_area" -> DOMAIN result.data

PivotNames == {"closed_findings", "open_findings", "overdue_findings", "criticality_by_area"}

PivotOf(name) ==
    CASE name = "closed_findings" -> result.closed_findings
      [] name = "open_findings" -> result.open_findings
      [] name = "overdue_findings" -> result.overdue_findings
      [] name = "criticality_by_area" -> result.criticality_by_area

\* C5 as stated: each of the four pivots has a row for every business area and
\* a column for every criticality that occurs in the filtered record set.
C5_Original ==
    Succeeded =>
        \A name \in PivotNames :
            /\ PivotOf(name).index =
                  {result.data[i].ba : i \in DOMAIN result.data} \ {NaN}
            /\ PivotOf(name).columns =
                  {result.data[i].crit : i \in DOMAIN result.data} \ {NaN}

\* C5 amended: each pivot is rectangular over the business areas and the
\* criticalities of the records it is computed from that have both keys: it
\* has a cell for every such row and column, 0 where no record matches.
C5_Rectangular ==
    Succeeded =>
        \A name \in PivotNames :
            LET p == PivotOf(name)
                own == {i \in PivotRecords(name) :
                          result.data[i].ba # NaN /\ result.data[i].crit # NaN}
            IN  /\ p.index = {result.data[i].ba : i \in own}
                /\ p.columns = {result.data[i].crit : i \in own}
                /\ DOMAIN p.values = p.index \X p.columns
                /\ \A b \in p.index, c \in p.columns :
                      (~\E i \in own : result.data[i].ba = b /\ result.data[i].crit = c)
                          => p.values[<<b, c>>] = 0

\* a 2 x 2 Severity pivot with two filled-in zeros, and a Closed pivot that
\* lacks the row of the Open record
C5_Witness ==
    /\ Succeeded
    /\ result.criticality_by_area.index = {"Fin", "IT"}
    /\ result.criticality_by_area.columns = {"High", "Medium"}
    /\ result.criticality_by_area.values[<<"Fin", "Medium">>] = 0
    /\ result.criticality_by_area.values[<<"IT", "High">>] = 0
    /\ result.closed_findings.index = {"Fin"}
    /\ result.open_findings.index = {"IT"}

\* ---------------------------------------------------------------- C7
\* the sheet row a filtered record came from
SheetRow(r) == file.rows[r.idx]

\* the due text of the sheet says "overdue" in some letter case
SaysOverdue(r) == SheetRow(r).due.kind = "str" /\ Contains(Lower(SheetRow(r).due.v), T_pat)

OverdueOpen == {i \in DOMAIN result.data : IsOpen(result.data[i]) /\ SaysOverdue(result.data[i])}

\* C7 as stated, its last sentence: the overdue KPI equals the sum of all
\* cells of the Overdue pivot.
C7_Original ==
    Displayed => kpis.overdue_findings_count = PivotSum(result.overdue_findings)

\* C7 amended: the overdue KPI counts exactly the Open records whose due text
\* says "overdue" in any letter case, and no Closed record; the Overdue pivot
\* counts those of them that have a business area, a criticality and a
\* Finding ID, so the KPI equals the pivot's sum when all of them do.
C7_Overdue ==
    Displayed =>
        LET overdue == OverdueOpen
        IN
        /\ kpis.overdue_findings_count = Cardinality(overdue)
        /\ PivotSum(result.overdue_findings) =
              Cardinality({i \in overdue : HasKeys(result.data[i])})
        /\ \A i \in overdue : HasKeys(result.data[i]) =>
              Cell(result.overdue_findings, result.data[i].ba, result.data[i].crit) >= 1
        /\ (\A i \in DOMAIN result.data : IsClosed(result.data[i]))
              => (kpis.overdue_findings_count = 0 /\ PivotSum(result.overdue_findings) = 0)
        /\ (\A i \in overdue : HasKeys(result.data[i])) =>
              kpis.overdue_findings_count = PivotSum(result.overdue_findings)

\* an Open record with an upper-case overdue text is counted, a Closed record
\* with an overdue text is not
C7_Witness ==
    /\ Displayed
    /\ Len(result.data) = 2
    /\ IsOpen(result.data[1]) /\ SheetRow(result.data[1]).due.v = T_overdue_upper
    /\ IsClosed(result.data[2]) /\ SaysOverdue(result.data[2])
    /\ kpis.overdue_findings_count = 1
    /\ PivotSum(result.overdue_findings) = 1

\* ---------------------------------------------------------------- C8
\* C8 as stated: a record with a missing applications value (or criticality)
\* is still counted in every KPI and every view that is not grouped by the
\* missing field; so the distinct-application count of its business area and
\* the affected-applications KPI count it.
C8_Original ==
    Displayed =>
        \A i \in DOMAIN result.data :
            LET r == result.data[i]
            IN  /\ r.ba # NaN => result.total_vulnerable_apps_by_BA[r.ba] >= 1
                /\ kpis.affected_apps >= 1

\* C8 amended: a record with a missing applications value is counted in the
\* record-count KPIs and in the four pivots like any other record, and its
\* business area is a group of the distinct-application view, but it adds
\* nothing to the distinct-application counts (the two views and the
\* affected-applications KPI); a record with a missing criticality is counted
\* in the distinct-application-by-business-area view like any other record.
C8_MissingValues ==
    Displayed =>
        /\ kpis.total_findings = Cardinality(Labels(result.data))
        /\ kpis.open_findings_count + kpis.closed_findings_count = Len(result.data)
        /\ kpis.affected_apps =
              Cardinality({result.data[i].app : i \in DOMAIN result.data} \ {NaN})
        /\ \A i \in DOMAIN result.data :
              LET r == result.data[i]
                  group == {j \in DOMAIN result.data :
                               /\ result.data[j].ba = r.ba
                               /\ result.data[j].crit = r.crit
                               /\ result.data[j].id # NaN}
                  status == {j \in group : result.data[j].mapped = r.mapped}
                  own == IF IsOpen(r) THEN result.open_findings ELSE result.closed_findings
              IN  /\ (r.ba # NaN /\ r.crit # NaN /\ r.id # NaN) =>
                        /\ Cell(result.criticality_by_area, r.ba, r.crit) = Cardinality(group)
                        /\ Cell(own, r.ba, r.crit) = Cardinality(status)
                  /\ r.ba # NaN =>
                        /\ r.ba \in DOMAIN result.total_vulnerable_apps_by_BA
                        /\ result.total_vulnerable_apps_by_BA[r.ba] =
                              Cardinality({result.data[j].app : j \in
                                  {k \in DOMAIN result.data : result.data[k].ba = r.ba}} \ {NaN})
                  /\ (r.ba # NaN /\ r.app # NaN) =>
                        result.total_vulnerable_apps_by_BA[r.ba] >= 1

\* one record without applications and one without criticality, same area:
\* the first is in the Severity pivot, the second in the application count
C8_Witness ==
    /\ Displayed
    /\ Len(result.data) = 2
    /\ result.data[1].app = NaN /\ result.data[1].crit = "High" /\ result.data[1].ba = "Fin"
    /\ result.data[2].crit = NaN /\ result.data[2].app = "a2" /\ result.data[2].ba = "Fin"
    /\ Cell(result.criticality_by_area, "Fin", "High") = 1
    /\ result.total_vulnerable_apps_by_BA["Fin"] = 1
    /\ kpis.total_findings = 2
    /\ kpis.affected_apps = 1

\* ---------------------------------------------------------------- C2
\* the sheet rows with a known status
KnownRows == {i \in DOMAIN file.rows : KnownStatus(file.rows[i])}

\* the largest count any view shows
ViewCounts ==
    {PivotSum(PivotOf(name)) : name \in PivotNames}
    \cup {result.total_vulnerable_apps_by_BA[b] : b \in DOMAIN result.total_vulnerable_apps_by_BA}
    \cup {result.high_vuln_apps_by_BA[b] : b \in DOMAIN result.high_vuln_apps_by_BA}

\* C2: a record gets the canonical status Open or Closed exactly when its
\* trimmed, lower-cased status text is one of the eight keys; a record with
\* any other status is in no output (the filtered records, the six views,
\* the six KPIs), whatever the filters.
C2_StatusMapping ==
    LET known == KnownRows
        nknown == Cardinality(known)
    IN
    /\ Succeeded =>
          /\ Labels(result.data) \subseteq known
          /\ \A i \in DOMAIN result.data :
                LET r == result.data[i]
                    text == Lower(Strip(SheetRow(r).status.v))
                IN  /\ r.mapped = "Finding Open" <=> text \in OpenKeys
                    /\ r.mapped = "Finding Closed" <=> text \in ClosedKeys
          /\ (start_date = None /\ selected_sources = {}) =>
                Labels(result.data) = known
          /\ \A n \in ViewCounts : n <= nknown
    /\ Displayed =>
          /\ kpis.total_findings <= nknown
          /\ kpis.open_findings_count + kpis.closed_findings_count <= nknown
          /\ kpis.overdue_findings_count <= nknown
          /\ kpis.high_risk_findings <= nknown
          /\ kpis.affected_apps <= nknown
          /\ (start_date = None /\ selected_sources = {}) =>
                kpis.total_findings = nknown

\* a padded "Finding Closed" is kept as Closed, the exception status typed
\* with a hyphen is dropped though the date and source filters accept it
C2_Witness ==
    /\ Displayed
    /\ Len(file.rows) = 2
    /\ file.rows[1].status.v = T_closed
    /\ file.rows[2].status.v = T_closed_hyphen
    /\ start_date = 1
    /\ selected_sources = {"WAPT"}
    /\ Labels(result.data) = {1}
    /\ IsClosed(result.data[1])
    /\ kpis.total_findings = 1
    /\ PivotSum(result.criticality_by_area) = 1

\* ---------------------------------------------------------------- C6
\* the sheet rows the filters have to keep
DateOK(r) ==
    (start_date # None /\ end_date # None) =>
        (r.published.fmt = "dmy" /\ start_date <= r.published.t /\ r.published.t <= end_date)

SourceOK(r) == selected_sources # {} => r.source \in selected_sources

\* C6: the date filter acts only when both bounds are given, and then keeps
\* exactly the mapped records with start <= t <= end: an inverted range keeps
\* nothing, a record without a parsed date is never kept; with a bound absent
\* no record is removed by it.
C6_DateFilter ==
    Succeeded =>
        LET known == KnownRows
        IN
        /\ Labels(result.data) =
              {i \in known : DateOK(file.rows[i]) /\ SourceOK(file.rows[i])}
        /\ (start_date # None /\ end_date # None /\ start_date > end_date) =>
              result.data = <<>>
        /\ (start_date # None /\ end_date # None) =>
              \A i \in DOMAIN result.data :
                  /\ result.data[i].published.t # NaT
                  /\ SheetRow(result.data[i]).published.fmt = "dmy"
        /\ (start_date = None \/ end_date = None) =>
              Labels(result.data) = {i \in known : SourceOK(file.rows[i])}

\* a record published at the end of the range is kept, one without a parsed
\* date is not
C6_Witness ==
    /\ Succeeded
    /\ start_date # None /\ end_date # None /\ start_date < end_date
    /\ Len(file.rows) = 2
    /\ file.rows[1].published = [fmt |-> "dmy", t |-> end_date]
    /\ file.rows[2].published.fmt = "iso" /\ KnownStatus(file.rows[2])
    /\ Labels(result.data) = {1}

\* a one-sided range removes nothing, not even the record without a date
C6_WitnessOneSided ==
    /\ Succeeded
    /\ start_date # None /\ end_date = None
    /\ \E i \in DOMAIN result.data : result.data[i].published.t = NaT
    /\ \E i \in DOMAIN result.data : result.data[i].published.t # NaT
                                       /\ result.data[i].published.t < start_date

\* ---------------------------------------------------------------- C4
SetMin(S) == CHOOSE m \in S : \A n \in S : m <= n
SetMax(S) == CHOOSE m \in S : \A n \in S : n <= m

ObservedTimes ==
    {ParsePublished(file.rows[i].published) : i \in DOMAIN file.rows} \ {NaT}

ObservedSources == {file.rows[i].source : i \in DOMAIN file.rows} \ {NaN}

\* the filters span the observed dates and name exactly the sources of the sheet
FullSpan ==
    /\ ObservedTimes # {}
    /\ start_date = SetMin(ObservedTimes)
    /\ end_date = SetMax(ObservedTimes)
    /\ selected_sources = ObservedSources

\* C4 as stated: a run with the full date span and every source returns what
\* the run without filters returns.
C4_Original ==
    (Succeeded /\ FullSpan) =>
        result = analyze_excel_with_pivot(file, None, None, {})

\* C4 amended: it does so for every sheet in which each record with a known
\* status has a published date that parses and, if sources are selected, a
\* source.
C4_FullSpanIsNoFilter ==
    (/\ Succeeded
     /\ FullSpan
     /\ \A i \in KnownRows :
           /\ file.rows[i].published.fmt = "dmy"
           /\ selected_sources # {} => file.rows[i].source # NaN)
    => result = analyze_excel_with_pivot(file, None, None, {})

\* two records a time apart, both kept by the spanning range
C4_Witness ==
    /\ Succeeded
    /\ FullSpan
    /\ start_date < end_date
    /\ selected_sources = {"WAPT"}
    /\ Len(result.data) = 2
    /\ Len(file.rows) = 2
====
